---- MODULE Spec2Model ----
(***************************************************************************)
(* The action execution engine of the automation bot (src/stats.py, the    *)
(* part after "# === test bot.py ==="): BotRuntime, BotGUI.run_script /     *)
(* stop_script / _runner_loop / _execute_action and the handlers.           *)
(*                                                                          *)
(* Python values are tagged tuples: <<"none">>, <<"int", n>>,               *)
(* <<"float", c>> (c in hundredths), <<"bool", b>>, <<"str", s>>,           *)
(* <<"tuple", x, y>>.  A dict is a set of <<key, value>> pairs with unique  *)
(* keys.  Script indexes are 0-based as in the code; the sequence `actions` *)
(* is 1-based, so the action at index k is actions[k + 1].                  *)
(***************************************************************************)
EXTENDS Integers, Sequences, FiniteSets, TLC

VARIABLES
    actions,          \* BotGUI.actions: the script
    runner_thread,    \* BotGUI.runner_thread: 0 (None) or a thread
    status,           \* BotGUI.status_var
    gui_pc,           \* where the controlling (Tk) thread is: "idle" or inside stop_script
    vars,             \* BotRuntime.vars
    templates,        \* BotRuntime.templates
    last_screenshot,  \* BotRuntime.last_screenshot_bgr
    last_match,       \* BotRuntime.last_match
    stop_requested,   \* BotRuntime.stop_requested
    pc,               \* per thread: position in _runner_loop
    i,                \* per thread: the local i of _runner_loop
    jumped,           \* per thread: the local jumped of _runner_loop
    trace,            \* history: the runtime call and notification of the last executed action
    found,            \* history: a find_template has returned a match since start / new_script
    afterStop,        \* history: actions the runner dispatched since the stop flag became true
    stopMidRun,       \* history: stop_script was called while the current run was alive
    templates_list,   \* BotGUI.templates_list: the names the listbox shows
    saved,            \* the script file: None or <<"file", its JSON data, the script saved>>
    tested,           \* history: flips between 0 and 1 at every test_selected_action
    refused,          \* history: 1 once run_script has returned early with a stop pending
    lazy,             \* history: frames captured by find_template / check_pixel themselves
    executed          \* history: the indexes the current run has dispatched, in order

vars_all == <<actions, runner_thread, status, gui_pc, vars, templates, last_screenshot,
              last_match, stop_requested, pc, i, jumped, trace, found, afterStop, stopMidRun,
              templates_list, saved, tested, refused, lazy, executed>>

\* ---------------------------------------------------------------- bounds
MaxLen == 2
MaxThreads == 2
MaxCount == 2
MaxList == 1

Threads == 1..MaxThreads

\* ---------------------------------------------------------------- values
None == <<"none">>
I(n) == <<"int", n>>
F(c) == <<"float", c>>
B(b) == <<"bool", b>>
S(s) == <<"str", s>>
Raise == <<"raise">>

Max(a, b) == IF a >= b THEN a ELSE b
Min(a, b) == IF a <= b THEN a ELSE b

\* a history counter, counted up to MaxCount
Bump(n) == Min(n + 1, MaxCount)

HasKey(d, k) == \E e \in d : e[1] = k
\* dict.get(k, default)
Get(d, k, default) == IF HasKey(d, k) THEN (CHOOSE e \in d : e[1] = k)[2] ELSE default
\* d[k] = v
Put(d, k, v) == {e \in d : e[1] # k} \cup {<<k, v>>}

\* The numeric strings the scripts of this model use; float() and int() of any
\* other string raise ValueError.
IntStrings == {"0", "1", "2", "3"}
StrToInt(s) == CASE s = "0" -> 0 [] s = "1" -> 1 [] s = "2" -> 2 [] s = "3" -> 3
FloatStrings == {"0.5", "0.85"}
StrToFloat(s) == CASE s = "0.5" -> 50 [] s = "0.85" -> 85

Trunc(c) == IF c >= 0 THEN c \div 100 ELSE -((-c) \div 100)

\* int(v): Raise when Python raises ValueError / TypeError
ToInt(v) ==
    CASE v[1] = "int" -> v
      [] v[1] = "float" -> I(Trunc(v[2]))
      [] v[1] = "bool" -> I(IF v[2] THEN 1 ELSE 0)
      [] v[1] = "str" -> IF v[2] \in IntStrings THEN I(StrToInt(v[2])) ELSE Raise
      [] OTHER -> Raise

\* float(v)
ToFloat(v) ==
    CASE v[1] = "float" -> v
      [] v[1] = "int" -> F(v[2] * 100)
      [] v[1] = "bool" -> F(IF v[2] THEN 100 ELSE 0)
      [] v[1] = "str" -> IF v[2] \in FloatStrings THEN F(StrToFloat(v[2]))
                         ELSE IF v[2] \in IntStrings THEN F(StrToInt(v[2]) * 100)
                         ELSE Raise
      [] OTHER -> Raise

\* bool(v): Python truthiness
ToBool(v) ==
    CASE v[1] = "bool" -> v[2]
      [] v[1] = "int" -> v[2] # 0
      [] v[1] = "float" -> v[2] # 0
      [] v[1] = "str" -> v[2] # ""
      [] v[1] = "none" -> FALSE
      [] OTHER -> TRUE

\* str(v), as a plain string
ToStr(v) ==
    CASE v[1] = "str" -> v[2]
      [] v[1] = "int" -> ToString(v[2])
      [] v[1] = "bool" -> IF v[2] THEN "True" ELSE "False"
      [] v[1] = "none" -> "None"
      [] OTHER -> "float"

\* ---------------------------------------------------------------- capability providers
\* pyautogui.screenshot(): a fresh frame, here an image of one colour <<"img", w, h, b, g, r>>,
\* or an exception.
Frames == {<<"img", 8, 8, 10, 20, 30>>}
CaptureOutcomes == Frames \cup {Raise}

\* os.path.isfile / cv2.imread: the files of the model.  "ok.png" decodes to a
\* 5 x 3 template, "bad.png" is a file that does not decode, nothing else exists.
IsFile(path) == path \in {"ok.png", "bad.png"}
ImRead(path) == IF path = "ok.png" THEN <<"tmpl", 5, 3>> ELSE None

\* cv2.matchTemplate + cv2.minMaxLoc: a best score (hundredths) at a location, or an
\* exception.
MatchOutcomes == {Raise} \cup {<<"best", sc, 3, 5>> : sc \in {84, 85}}

\* pyautogui.click / moveTo / press / typewrite: returns, or raises.
InjectOutcomes == {None, Raise}

\* ---------------------------------------------------------------- BotRuntime
\* take_screenshot: the outcomes for the capture cache; Raise leaves it as it was.
take_screenshot(shot) == CaptureOutcomes

\* load_template(name, path): [tmpls, ret]
load_template(tmpls, name, path) ==
    IF ~IsFile(path) THEN [tmpls |-> tmpls, ret |-> B(FALSE)]
    ELSE IF ImRead(path) = None THEN [tmpls |-> tmpls, ret |-> B(FALSE)]
    ELSE [tmpls |-> Put(tmpls, name, ImRead(path)), ret |-> B(TRUE)]

Match(name, x, y, w, h, score) == <<"match", name, x, y, w, h, score>>

\* What find_template does once the capture cache holds `shot`.
FindUnregistered(lm) == [lm |-> lm, ret |-> None]

FindBelowThreshold(lm) == [lm |-> None, ret |-> None]

find_in(shot, tmpls, lm, name, thr) ==
    IF ~HasKey(tmpls, name) THEN {[shot |-> shot] @@ FindUnregistered(lm)}
    ELSE LET tmpl == Get(tmpls, name, None) IN
         { IF m = Raise THEN [shot |-> shot, lm |-> lm, ret |-> Raise]
           ELSE IF m[2] >= thr
                THEN LET r == Match(name, m[3], m[4], tmpl[2], tmpl[3], m[2])
                     IN [shot |-> shot, lm |-> r, ret |-> r]
                ELSE [shot |-> shot] @@ FindBelowThreshold(lm)
           : m \in MatchOutcomes }

\* CacheEmpty that always asks for a capture
CacheEmptyAlways(shot) == TRUE

\* find_template, check_pixel: `if self.last_screenshot_bgr is None`
CacheEmpty(shot) == shot = None

\* find_template(name, threshold): the set of outcomes [shot, lm, ret, cap]; cap tells
\* whether take_screenshot was called ("no") and whether it "raised" or gave a "frame".
find_template(shot, tmpls, lm, name, thr) ==
    IF CacheEmpty(shot)
    THEN UNION { IF c = Raise THEN {[shot |-> shot, lm |-> lm, ret |-> Raise, cap |-> "raised"]}
                 ELSE {[cap |-> "frame"] @@ o : o \in find_in(c, tmpls, lm, name, thr)}
                 : c \in take_screenshot(shot) }
    ELSE {[cap |-> "no"] @@ o : o \in find_in(shot, tmpls, lm, name, thr)}

\* click_match: `if not self.last_match`
NoLastMatch(lm) == lm = None

\* click_match(...): the set of outcomes [ret, inj]
click_match(lm, interval, center, ox, oy) ==
    IF NoLastMatch(lm) THEN {[ret |-> B(FALSE), inj |-> None]}
    ELSE LET x == lm[3] + (IF center THEN lm[5] \div 2 ELSE 0) + ox
             y == lm[4] + (IF center THEN lm[6] \div 2 ELSE 0) + oy
         IN { [ret |-> IF o = Raise THEN Raise ELSE B(TRUE),
               inj |-> <<"click", x, y, interval>>] : o \in InjectOutcomes }

click_at(x, y, interval) ==
    { [ret |-> o, inj |-> <<"click", x, y, interval>>] : o \in InjectOutcomes }

move_mouse(x, y, duration) ==
    { [ret |-> o, inj |-> <<"move", x, y, Max(0, duration)>>] : o \in InjectOutcomes }

press_key(key) ==
    { [ret |-> o, inj |-> <<"press", key>>] : o \in InjectOutcomes }

type_text(text, interval) ==
    { [ret |-> o, inj |-> <<"type", text, Max(0, interval)>>] : o \in InjectOutcomes }

Abs(n) == IF n >= 0 THEN n ELSE -n

\* PixelIn with < for <=
PixelInStrict(img, x, y, r, g, b, tol) ==
    IF x < 0 \/ y < 0 \/ x >= img[2] \/ y >= img[3] THEN B(FALSE)
    ELSE LET br == img[4]  bg == img[5]  bb == img[6]
             tr == b  tg == g  tb == r
         IN B(Abs(br - tr) < tol /\ Abs(bg - tg) < tol /\ Abs(bb - tb) < tol)

\* check_pixel once the capture cache holds img: bounds test, then the pixel (BGR order)
\* against the target converted to BGR
PixelIn(img, x, y, r, g, b, tol) ==
    IF x < 0 \/ y < 0 \/ x >= img[2] \/ y >= img[3] THEN B(FALSE)
    ELSE LET br == img[4]  bg == img[5]  bb == img[6]
             tr == b  tg == g  tb == r
         IN B(Abs(br - tr) <= tol /\ Abs(bg - tg) <= tol /\ Abs(bb - tb) <= tol)

\* check_pixel(x, y, r, g, b, tolerance): the set of outcomes [shot, ret, cap]
check_pixel(shot, x, y, r, g, b, tol) ==
    IF CacheEmpty(shot)
    THEN { IF c = Raise THEN [shot |-> shot, ret |-> Raise, cap |-> "raised"]
           ELSE [shot |-> c, ret |-> PixelIn(c, x, y, r, g, b, tol), cap |-> "frame"]
           : c \in take_screenshot(shot) }
    ELSE {[shot |-> shot, ret |-> PixelIn(shot, x, y, r, g, b, tol), cap |-> "no"]}

\* ---------------------------------------------------------------- IF_GOTO expressions
\* eval(expr, {"__builtins__": {}}, {"vars": vars, "last_match": last_match}) for the
\* expressions the scripts of this model use: "true", "false", or "error" when eval raises.
\* NumLess with the comparison turned round
NumLessFlipped(v, n) ==
    CASE v[1] = "int" -> IF v[2] > n THEN "true" ELSE "false"
      [] v[1] = "float" -> IF v[2] > n * 100 THEN "true" ELSE "false"
      [] v[1] = "bool" -> IF (IF v[2] THEN 1 ELSE 0) > n THEN "true" ELSE "false"
      [] OTHER -> "error"

NumLess(v, n) ==
    CASE v[1] = "int" -> IF v[2] < n THEN "true" ELSE "false"
      [] v[1] = "float" -> IF v[2] < n * 100 THEN "true" ELSE "false"
      [] v[1] = "bool" -> IF (IF v[2] THEN 1 ELSE 0) < n THEN "true" ELSE "false"
      [] OTHER -> "error"

EqTrue(v) == v = B(TRUE) \/ v = I(1) \/ v = F(100)

EvalExpr(expr, vs, lm) ==
    CASE expr = "True" -> "true"
      [] expr = "False" -> "false"
      [] expr = "vars['i'] < 3" ->
            IF HasKey(vs, "i") THEN NumLess(Get(vs, "i", None), 3) ELSE "error"
      [] expr = "last_match is not None" -> IF lm # None THEN "true" ELSE "false"
      [] expr = "vars.get('pixel_ok') == True and (last_match is not None)" ->
            IF EqTrue(Get(vs, "pixel_ok", None)) /\ lm # None THEN "true" ELSE "false"
      \* dict.update returns None; dict.pop raises KeyError for a missing key
      [] expr = "vars.update(hit=1)" -> "false"
      [] expr = "vars.pop('i') < 3" ->
            IF HasKey(vs, "i") THEN NumLess(Get(vs, "i", None), 3) ELSE "error"
      [] expr = "last_match.update(x=0)" -> IF lm = None THEN "error" ELSE "false"
      \* SyntaxError, NameError
      [] expr \in {"1 +", "foo > 1"} -> "error"
      [] OTHER -> "error"

\* env = {"vars": r.vars, "last_match": r.last_match} hands eval the two objects
\* themselves: the variable store and the last match after the evaluation.
EvalVars(expr, vs) ==
    CASE expr = "vars.update(hit=1)" -> Put(vs, "hit", I(1))
      [] expr = "vars.pop('i') < 3" -> {e \in vs : e[1] # "i"}
      [] OTHER -> vs

EvalMatch(expr, lm) ==
    IF expr = "last_match.update(x=0)" /\ lm # None THEN [lm EXCEPT ![3] = 0] ELSE lm

\* Jumps with a failed evaluation taken for a true condition
ErrorJumps(result) == result # "false"

\* try: result = bool(eval(...)) / except Exception: result = False / if result:
Jumps(result) == result = "true"

\* ---------------------------------------------------------------- BotGUI._execute_action
Act(type, params) == [type |-> type, params |-> params]

St(index, type) == "[" \o ToString(index) \o "] " \o type

\* cap: the take_screenshot call find_template / check_pixel made ("no": none)
Tr(op, ret, inj, note) == [op |-> op, ret |-> ret, inj |-> inj, note |-> note, cap |-> "no"]

\* A capture of find_template / check_pixel that returned a frame, counted.  The two
\* histories tested, refused and lazy are kept by the specifications that read them and
\* are -1 throughout in the others.
Captured(o) == IF lazy >= 0 /\ o.cap = "frame" THEN Bump(lazy) ELSE lazy

runtime == <<vars, templates, last_screenshot, last_match, found, templates_list, lazy>>

\* `except Exception as e: messagebox.showerror(...)` when a parameter cannot be coerced:
\* nothing has been written yet.
Caught == /\ trace' = Tr("-", Raise, None, "error")
          /\ UNCHANGED <<status, runtime>>

NoteOf(ret) == IF ret = Raise THEN "error" ELSE "none"

H_WAIT(p, index) ==
    LET secs == ToFloat(Get(p, "seconds", F(50))) IN
    IF secs = Raise THEN Caught
    ELSE /\ status' = St(index, "WAIT")
         /\ trace' = Tr("sleep", None, None, "none")
         /\ UNCHANGED runtime

H_SCREENSHOT(p, index) ==
    /\ status' = St(index, "SCREENSHOT")
    /\ \E c \in take_screenshot(last_screenshot) :
          /\ last_screenshot' = IF c = Raise THEN last_screenshot ELSE c
          /\ trace' = Tr("take_screenshot", IF c = Raise THEN Raise ELSE None, None, NoteOf(c))
    /\ UNCHANGED <<vars, templates, last_match, found, templates_list, lazy>>

H_LOAD_TEMPLATE(p, index, test_mode) ==
    LET name == ToStr(Get(p, "name", S("template")))
        path == ToStr(Get(p, "path", S("")))
        o == load_template(templates, name, path)
    IN /\ status' = St(index, "LOAD_TEMPLATE")
       /\ templates' = o.tmpls
       /\ templates_list' = IF o.ret = B(TRUE) /\ test_mode
                            THEN Append(templates_list, name) ELSE templates_list
       /\ trace' = Tr("load_template", o.ret, None,
                      IF o.ret = B(TRUE) THEN "none" ELSE "warning")
       /\ UNCHANGED <<vars, last_screenshot, last_match, found, lazy>>

\* RecordMatch without the else branch of `if m:`
RecordMatchSkipNone(vs, m) ==
    IF m # None
    THEN Put(Put(Put(vs, "last_match_score", F(m[7])), "last_match_name", S(m[2])),
             "last_match_xy", <<"tuple", m[3], m[4]>>)
    ELSE vs

\* The three variables FIND_TEMPLATE records.
RecordMatch(vs, m) ==
    IF m # None
    THEN Put(Put(Put(vs, "last_match_score", F(m[7])), "last_match_name", S(m[2])),
             "last_match_xy", <<"tuple", m[3], m[4]>>)
    ELSE Put(Put(Put(vs, "last_match_score", None), "last_match_name", None),
             "last_match_xy", None)

H_FIND_TEMPLATE(p, index) ==
    LET name == ToStr(Get(p, "name", S("template")))
        threshold == ToFloat(Get(p, "threshold", F(85)))
    IN IF threshold = Raise THEN Caught
       ELSE /\ status' = St(index, "FIND_TEMPLATE")
            /\ \E o \in find_template(last_screenshot, templates, last_match, name,
                                      threshold[2]) :
                  /\ last_screenshot' = o.shot
                  /\ last_match' = o.lm
                  /\ vars' = IF o.ret = Raise THEN vars ELSE RecordMatch(vars, o.ret)
                  /\ found' = (found \/ (o.ret # Raise /\ o.ret # None))
                  /\ lazy' = Captured(o)
                  /\ trace' = [Tr("find_template", o.ret, None, NoteOf(o.ret))
                                  EXCEPT !.cap = o.cap]
            /\ UNCHANGED <<templates, templates_list>>

H_CLICK_MATCH(p, index) ==
    LET clicks == ToInt(Get(p, "clicks", I(1)))
        interval == ToFloat(Get(p, "interval", F(5)))
        center == ToBool(Get(p, "center", B(TRUE)))
        ox == ToInt(Get(p, "offset_x", I(0)))
        oy == ToInt(Get(p, "offset_y", I(0)))
    IN IF Raise \in {clicks, interval, ox, oy} THEN Caught
       ELSE /\ status' = St(index, "CLICK_MATCH")
            /\ \E o \in click_match(last_match, interval[2], center, ox[2], oy[2]) :
                  trace' = Tr("click_match", o.ret, o.inj,
                              IF o.ret = Raise THEN "error"
                              ELSE IF o.ret = B(FALSE) THEN "info" ELSE "none")
            /\ UNCHANGED runtime

H_CLICK_AT(p, index) ==
    LET x == ToInt(Get(p, "x", I(0)))
        y == ToInt(Get(p, "y", I(0)))
        clicks == ToInt(Get(p, "clicks", I(1)))
        interval == ToFloat(Get(p, "interval", F(5)))
    IN IF Raise \in {x, y, clicks, interval} THEN Caught
       ELSE /\ status' = St(index, "CLICK_AT")
            /\ \E o \in click_at(x[2], y[2], interval[2]) :
                  trace' = Tr("click_at", o.ret, o.inj, NoteOf(o.ret))
            /\ UNCHANGED runtime

H_MOVE_MOUSE(p, index) ==
    LET x == ToInt(Get(p, "x", I(0)))
        y == ToInt(Get(p, "y", I(0)))
        duration == ToFloat(Get(p, "duration", F(20)))
    IN IF Raise \in {x, y, duration} THEN Caught
       ELSE /\ status' = St(index, "MOVE_MOUSE")
            /\ \E o \in move_mouse(x[2], y[2], duration[2]) :
                  trace' = Tr("move_mouse", o.ret, o.inj, NoteOf(o.ret))
            /\ UNCHANGED runtime

H_CHECK_PIXEL(p, index) ==
    LET x == ToInt(Get(p, "x", I(0)))
        y == ToInt(Get(p, "y", I(0)))
        r0 == ToInt(Get(p, "r", I(255)))
        g0 == ToInt(Get(p, "g", I(255)))
        b0 == ToInt(Get(p, "b", I(255)))
        tol == ToInt(Get(p, "tolerance", I(10)))
        varname == ToStr(Get(p, "set_var", S("pixel_ok")))
    IN IF Raise \in {x, y, r0, g0, b0, tol} THEN Caught
       ELSE /\ status' = St(index, "CHECK_PIXEL")
            /\ \E o \in check_pixel(last_screenshot, x[2], y[2], r0[2], g0[2], b0[2], tol[2]) :
                  /\ last_screenshot' = o.shot
                  /\ vars' = IF o.ret = Raise THEN vars ELSE Put(vars, varname, o.ret)
                  /\ lazy' = Captured(o)
                  /\ trace' = [Tr("check_pixel", o.ret, None, NoteOf(o.ret))
                                  EXCEPT !.cap = o.cap]
            /\ UNCHANGED <<templates, last_match, found, templates_list>>

\* SET_VAR: "cast basic literals"
CastLiteral(value) ==
    IF value[1] # "str" THEN value
    ELSE IF value[2] \in {"true", "True", "TRUE"} THEN B(TRUE)
    ELSE IF value[2] \in {"false", "False", "FALSE"} THEN B(FALSE)
    ELSE IF value[2] \in FloatStrings THEN F(StrToFloat(value[2]))
    ELSE IF value[2] \in IntStrings THEN I(StrToInt(value[2]))
    ELSE value

H_SET_VAR(p, index) ==
    LET name == ToStr(Get(p, "name", S("flag")))
        value == CastLiteral(Get(p, "value", S("")))
    IN /\ status' = St(index, "SET_VAR")
       /\ vars' = Put(vars, name, value)
       /\ trace' = Tr("set_var", None, None, "none")
       /\ UNCHANGED <<templates, last_screenshot, last_match, found, templates_list, lazy>>

H_IF_GOTO(p, index) ==
    LET target == ToInt(Get(p, "index", I(0))) IN
    IF target = Raise THEN Caught
    ELSE LET expr == ToStr(Get(p, "expr", S("False"))) IN
         /\ status' = St(index, "IF_GOTO")
         /\ vars' = EvalVars(expr, vars)
         /\ last_match' = EvalMatch(expr, last_match)
         /\ trace' = Tr("eval", S(EvalExpr(expr, vars, last_match)), None, "none")
         /\ UNCHANGED <<templates, last_screenshot, found, templates_list, lazy>>

H_PRESS_KEY(p, index) ==
    /\ status' = St(index, "PRESS_KEY")
    /\ \E o \in press_key(ToStr(Get(p, "key", S("enter")))) :
          trace' = Tr("press_key", o.ret, o.inj, NoteOf(o.ret))
    /\ UNCHANGED runtime

H_TYPE_TEXT(p, index) ==
    LET interval == ToFloat(Get(p, "interval", F(2))) IN
    IF interval = Raise THEN Caught
    ELSE /\ status' = St(index, "TYPE_TEXT")
         /\ \E o \in type_text(ToStr(Get(p, "text", S(""))), interval[2]) :
               trace' = Tr("type_text", o.ret, o.inj, NoteOf(o.ret))
         /\ UNCHANGED runtime

\* The final else: messagebox.showwarning("Unknown Action", ...)
H_UNKNOWN ==
    /\ trace' = Tr("-", None, None, "unknown")
    /\ UNCHANGED <<status, runtime>>

\* The dispatch of _execute_action on an action already fetched: what it writes.
Dispatch(act, index, test_mode) ==
    LET p == act.params IN
    CASE act.type = "WAIT" -> H_WAIT(p, index)
      [] act.type = "SCREENSHOT" -> H_SCREENSHOT(p, index)
      [] act.type = "LOAD_TEMPLATE" -> H_LOAD_TEMPLATE(p, index, test_mode)
      [] act.type = "FIND_TEMPLATE" -> H_FIND_TEMPLATE(p, index)
      [] act.type = "CLICK_MATCH" -> H_CLICK_MATCH(p, index)
      [] act.type = "CLICK_AT" -> H_CLICK_AT(p, index)
      [] act.type = "MOVE_MOUSE" -> H_MOVE_MOUSE(p, index)
      [] act.type = "CHECK_PIXEL" -> H_CHECK_PIXEL(p, index)
      [] act.type = "SET_VAR" -> H_SET_VAR(p, index)
      [] act.type = "IF_GOTO" -> H_IF_GOTO(p, index)
      [] act.type = "PRESS_KEY" -> H_PRESS_KEY(p, index)
      [] act.type = "TYPE_TEXT" -> H_TYPE_TEXT(p, index)
      [] OTHER -> H_UNKNOWN

\* What _execute_action returns for a fetched action: the IF_GOTO target when its
\* condition is true, None otherwise (and None when anything raised).
ReturnOf(act, vs, lm) ==
    IF act.type # "IF_GOTO" THEN None
    ELSE LET target == ToInt(Get(act.params, "index", I(0))) IN
         IF target = Raise THEN None
         ELSE IF Jumps(EvalExpr(ToStr(Get(act.params, "expr", S("False"))), vs, lm))
              THEN target ELSE None

\* list.__getitem__: the position read by self.actions[index], Raise for an IndexError
FetchIndex(k, n) ==
    IF 0 <= k /\ k < n THEN I(k)
    ELSE IF -n <= k /\ k < 0 THEN I(n + k)
    ELSE Raise

\* AfterDispatch without the except clause: the exception ends the thread
AfterDispatchPropagate(note) == IF note = "error" THEN "crashed" ELSE "adv"

\* The try/except of _execute_action: where the runner is after the dispatch, whatever
\* notification the action ended with ("error": an exception was caught and reported).
AfterDispatch(note) == "adv"

\* ---------------------------------------------------------------- threads
Alive(t) == pc[t] \in {"start", "loop", "poll", "check", "fetch", "adv"}

\* RunnerAlive without the is_alive() test
RunnerAliveNever == FALSE

\* run_script: `self.runner_thread and self.runner_thread.is_alive()`
RunnerAlive == runner_thread # 0 /\ Alive(runner_thread)

RunActive == \E t \in Threads : Alive(t)

Ends(t, how) ==
    /\ pc' = [pc EXCEPT ![t] = how]
    /\ i' = [i EXCEPT ![t] = 0]
    /\ jumped' = [jumped EXCEPT ![t] = None]
    /\ executed' = <<>>

\* ---------------------------------------------------------------- BotGUI._runner_loop
\* i = 0; self.set_status("Running")
r_start(t) ==
    /\ pc[t] = "start"
    /\ status' = "Running"
    /\ pc' = [pc EXCEPT ![t] = "loop"]
    /\ i' = [i EXCEPT ![t] = 0]
    /\ UNCHANGED <<actions, runner_thread, gui_pc, runtime, stop_requested, jumped, trace,
                   afterStop, stopMidRun, saved, tested, refused, executed>>

\* while i < len(self.actions): ... ; self.set_status("Done")
r_loop(t) ==
    /\ pc[t] = "loop"
    /\ IF i[t] < Len(actions)
       THEN /\ pc' = [pc EXCEPT ![t] = "poll"]
            /\ UNCHANGED <<status, i, jumped, executed>>
       ELSE /\ status' = "Done"
            /\ Ends(t, "done")
    /\ UNCHANGED <<actions, runner_thread, gui_pc, runtime, stop_requested, trace,
                   afterStop, stopMidRun, saved, tested, refused>>

\* should_stop that never sees the flag
should_stop_never == FALSE

\* should_stop()
should_stop == stop_requested

\* if self.runtime.should_stop(): self.set_status("Stopped"); return
r_poll(t) ==
    /\ pc[t] = "poll"
    /\ IF should_stop
       THEN /\ status' = "Stopped"
            /\ Ends(t, "stopped")
       ELSE /\ pc' = [pc EXCEPT ![t] = "check"]
            /\ UNCHANGED <<status, i, jumped, executed>>
    /\ UNCHANGED <<actions, runner_thread, gui_pc, runtime, stop_requested, trace,
                   afterStop, stopMidRun, saved, tested, refused>>

\* _execute_action(i): if index < 0 or index >= len(self.actions): return None
r_check(t) ==
    /\ pc[t] = "check"
    /\ IF i[t] < 0 \/ i[t] >= Len(actions)
       THEN /\ pc' = [pc EXCEPT ![t] = "adv"]
            /\ jumped' = [jumped EXCEPT ![t] = None]
       ELSE /\ pc' = [pc EXCEPT ![t] = "fetch"]
            /\ UNCHANGED jumped
    /\ UNCHANGED <<actions, runner_thread, status, gui_pc, runtime, stop_requested, i, trace,
                   afterStop, stopMidRun, saved, tested, refused, executed>>

\* act = self.actions[index], then the dispatch inside try/except
r_fetch(t) ==
    /\ pc[t] = "fetch"
    /\ LET k == FetchIndex(i[t], Len(actions)) IN
       IF k = Raise
       THEN /\ Ends(t, "crashed")
            /\ UNCHANGED <<status, runtime, trace, afterStop>>
       ELSE LET act == actions[k[2] + 1] IN
            /\ Dispatch(act, i[t], FALSE)
            /\ jumped' = [jumped EXCEPT ![t] = ReturnOf(act, vars, last_match)]
            /\ pc' = [pc EXCEPT ![t] = AfterDispatch(trace'.note)]
            /\ afterStop' = IF stop_requested THEN Bump(afterStop) ELSE afterStop
            /\ executed' = IF Len(executed) <= MaxLen THEN Append(executed, i[t])
                            ELSE executed
            /\ UNCHANGED i
    /\ UNCHANGED <<actions, runner_thread, gui_pc, stop_requested, stopMidRun, saved, tested, refused>>

\* Clamp without the lower bound, and without any bound
ClampUpperOnly(j, n) == Min(n - 1, j)

ClampNone(j, n) == j

\* max(0, min(len(self.actions) - 1, jumped))
Clamp(j, n) == Max(0, Min(n - 1, j))

\* Step that skips an action
StepTwo(k) == k + 2

\* i += 1
Step(k) == k + 1

\* if isinstance(jumped, int): i = clamp else: i += 1
r_adv(t) ==
    /\ pc[t] = "adv"
    /\ i' = [i EXCEPT ![t] = IF jumped[t] # None THEN Clamp(jumped[t][2], Len(actions))
                             ELSE Step(i[t])]
    /\ pc' = [pc EXCEPT ![t] = "loop"]
    /\ UNCHANGED <<actions, runner_thread, status, gui_pc, runtime, stop_requested, jumped,
                   trace, afterStop, stopMidRun, saved, tested, refused, executed>>

\* A thread whose loop died of an exception or was never started takes no step.
Runner(t) == r_start(t) \/ r_loop(t) \/ r_poll(t) \/ r_check(t) \/ r_fetch(t) \/ r_adv(t)

\* ---------------------------------------------------------------- BotGUI commands
\* run_script: return if a runner is alive; clear_stop(); start a new thread
run_script ==
    /\ gui_pc = "idle"
    /\ IF RunnerAlive
       THEN /\ refused' = IF refused >= 0 /\ stop_requested THEN 1 ELSE refused
            /\ UNCHANGED <<actions, runner_thread, status, gui_pc, runtime, stop_requested, pc,
                           i, jumped, trace, afterStop, stopMidRun, saved, tested, executed>>
       ELSE /\ \E t \in Threads :
                  /\ ~Alive(t)
                  /\ \A u \in Threads : u < t => Alive(u)
                  /\ runner_thread' = t
                  /\ pc' = [pc EXCEPT ![t] = "start"]
            /\ stop_requested' = FALSE
            /\ afterStop' = 0
            /\ stopMidRun' = FALSE
            /\ executed' = <<>>
            /\ refused' = IF refused >= 0 THEN 0 ELSE refused
            /\ UNCHANGED <<actions, status, gui_pc, runtime, i, jumped, trace, saved, tested>>

\* stop_script, first half: self.runtime.request_stop()
stop_request ==
    /\ gui_pc = "idle"
    /\ stop_requested' = TRUE
    /\ gui_pc' = "stop_script"
    /\ stopMidRun' = (stopMidRun \/ RunActive)
    /\ UNCHANGED <<actions, runner_thread, status, runtime, pc, i, jumped, trace, afterStop,
                   saved, tested, refused, executed>>

\* stop_script, second half: self.set_status("Stopping...")
stop_status ==
    /\ gui_pc = "stop_script"
    /\ status' = "Stopping..."
    /\ gui_pc' = "idle"
    /\ UNCHANGED <<actions, runner_thread, runtime, stop_requested, pc, i, jumped, trace,
                   afterStop, stopMidRun, saved, tested, refused, executed>>

\* DropReturn that hands the returned jump target to the runner
KeepReturn(js, ret) == [t \in Threads |-> ret]

\* test_selected_action: the value _execute_action returns is not used
DropReturn(js, ret) == js

\* test_selected_action with the action at `index` selected
test_selected_action(index) ==
    /\ gui_pc = "idle"
    /\ index \in 0..(Len(actions) - 1)
    /\ actions[index + 1].type = "LOAD_TEMPLATE" => Len(templates_list) < MaxList
    /\ Dispatch(actions[index + 1], index, TRUE)
    /\ jumped' = DropReturn(jumped, ReturnOf(actions[index + 1], vars, last_match))
    /\ tested' = IF tested < 0 THEN tested ELSE 1 - tested
    /\ UNCHANGED <<actions, runner_thread, gui_pc, stop_requested, pc, i,
                   afterStop, stopMidRun, saved, refused, executed>>

\* cmd_screenshot: take_screenshot(); update_preview(...)
cmd_screenshot ==
    /\ gui_pc = "idle"
    /\ \E c \in take_screenshot(last_screenshot) :
          last_screenshot' = IF c = Raise THEN last_screenshot ELSE c
    /\ UNCHANGED <<actions, runner_thread, status, gui_pc, vars, templates, last_match,
                   stop_requested, pc, i, jumped, trace, found, afterStop, stopMidRun,
                   templates_list, saved, tested, refused, lazy, executed>>

\* os.path.splitext(os.path.basename(path))[0]
TemplateName(path) == CASE path = "ok.png" -> "ok" [] path = "bad.png" -> "bad"

\* load_template_dialog with `path` chosen in the file dialog
load_template_dialog(path) ==
    /\ gui_pc = "idle"
    /\ Len(templates_list) < MaxList
    /\ LET o == load_template(templates, TemplateName(path), path) IN
          /\ templates' = o.tmpls
          /\ templates_list' = IF o.ret = B(TRUE)
                               THEN Append(templates_list, TemplateName(path))
                               ELSE templates_list
          /\ status' = IF o.ret = B(TRUE) THEN "Loaded template" ELSE status
    /\ UNCHANGED <<actions, runner_thread, gui_pc, vars, last_screenshot, last_match,
                   stop_requested, pc, i, jumped, trace, found, afterStop, stopMidRun,
                   saved, tested, refused, lazy, executed>>

\* remove_selected_template with row `row` of the listbox selected
remove_selected_template(row) ==
    /\ gui_pc = "idle"
    /\ row \in 1..Len(templates_list)
    /\ templates' = {e \in templates : e[1] # templates_list[row]}
    /\ templates_list' = [k \in 1..(Len(templates_list) - 1) |->
                            IF k < row THEN templates_list[k] ELSE templates_list[k + 1]]
    /\ UNCHANGED <<actions, runner_thread, status, gui_pc, vars, last_screenshot, last_match,
                   stop_requested, pc, i, jumped, trace, found, afterStop, stopMidRun,
                   saved, tested, refused, lazy, executed>>

\* ResetMatch that keeps the old match
ResetMatchStale == last_match

\* new_script: self.runtime.last_match = None
ResetMatch == None

\* new_script, the discard confirmed: clears the script, the variables and the last match
new_script ==
    /\ gui_pc = "idle"
    /\ actions' = <<>>
    /\ vars' = {}
    /\ last_match' = ResetMatch
    /\ status' = "New script"
    /\ found' = FALSE
    /\ trace' = Tr("-", None, None, "none")
    /\ UNCHANGED <<runner_thread, gui_pc, templates, last_screenshot, stop_requested, pc, i,
                   jumped, afterStop, stopMidRun, templates_list, saved, tested, refused, lazy,
                   executed>>

\* delete_action with the action at `index` selected: del self.actions[idx]
delete_action(index) ==
    /\ gui_pc = "idle"
    /\ index \in 0..(Len(actions) - 1)
    /\ actions' = [k \in 1..(Len(actions) - 1) |->
                     IF k <= index THEN actions[k] ELSE actions[k + 1]]
    /\ UNCHANGED <<runner_thread, status, gui_pc, vars, templates, last_screenshot, last_match,
                   stop_requested, pc, i, jumped, trace, found, afterStop, stopMidRun,
                   templates_list, saved, tested, refused, lazy, executed>>

\* The script editor is used between runs (it is outside the engine): new_script with
\* no run active.
NewScriptIdle == ~RunActive /\ new_script

\* ---------------------------------------------------------------- script files
D(d) == <<"dict", d>>

\* BotAction.to_dict
to_dict(act) == {<<"type", S(act.type)>>, <<"params", D(act.params)>>}

\* d["type"] raises KeyError when the key is missing
HasType(d) == HasKey(d, "type")

\* from_dict that forgets the params
from_dict_bare(d) == Act(Get(d, "type", None)[2], {})

\* BotAction.from_dict of a record that has a type: d["type"], d.get("params", {})
from_dict(d) == Act(Get(d, "type", None)[2], Get(d, "params", D({}))[2])

\* json.load(json.dump(v)): a tuple comes back as a list, a dict with its values
\* converted, every other value as it was
JsonValue(v) ==
    CASE v[1] = "tuple" -> <<"list", v[2], v[3]>>
      [] v[1] = "dict" -> D({<<e[1], IF e[2][1] = "tuple" THEN <<"list", e[2][2], e[2][3]>>
                                     ELSE e[2]>> : e \in v[2]})
      [] OTHER -> v

JsonData(data) == [k \in 1..Len(data) |-> {<<e[1], JsonValue(e[2])>> : e \in data[k]}]

\* A file: its JSON data, and (history) the script save_script wrote it from, None for a
\* file written by hand
File(data, of) == <<"file", data, of>>

\* save_script with a path chosen: data = [a.to_dict() for a in self.actions]; json.dump
save_script ==
    /\ gui_pc = "idle"
    /\ saved' = File(JsonData([k \in 1..Len(actions) |-> to_dict(actions[k])]),
                      <<"script", actions>>)
    /\ status' = "Saved"
    /\ UNCHANGED <<actions, runner_thread, gui_pc, vars, templates, last_screenshot, last_match,
                   stop_requested, pc, i, jumped, trace, found, afterStop, stopMidRun,
                   templates_list, tested, refused, lazy, executed>>

\* load_script, the discard confirmed and the file chosen: json.load;
\* self.actions = [BotAction.from_dict(d) for d in data]; any exception is reported and
\* the script is left as it was
load_script ==
    /\ gui_pc = "idle"
    /\ saved # None
    /\ IF \E k \in 1..Len(saved[2]) : ~HasType(saved[2][k])
       THEN UNCHANGED <<actions, status>>
       ELSE /\ actions' = [k \in 1..Len(saved[2]) |-> from_dict(saved[2][k])]
            /\ status' = "Loaded"
    /\ UNCHANGED <<runner_thread, gui_pc, vars, templates, last_screenshot, last_match,
                   stop_requested, pc, i, jumped, trace, found, afterStop, stopMidRun,
                   templates_list, saved, tested, refused, lazy, executed>>

\* ---------------------------------------------------------------- scripts
\* Control flow: plain, failing and unknown actions, and jumps below, inside and beyond
\* the script.
PoolRun == <<
    Act("WAIT", {}),
    Act("WAIT", {<<"seconds", S("abc")>>}),
    Act("NOPE", {}),
    Act("PRESS_KEY", {}),
    Act("IF_GOTO", {<<"expr", S("True")>>, <<"index", I(-1)>>}),
    Act("IF_GOTO", {<<"expr", S("True")>>, <<"index", I(1)>>}),
    Act("IF_GOTO", {<<"expr", S("True")>>, <<"index", I(9)>>}),
    Act("IF_GOTO", {<<"expr", S("False")>>, <<"index", I(0)>>}) >>

\* Pattern matching: finds and clicks (templates come from the Load Template button,
\* captures from the lazy capture of find_template and from the Screenshot button).
PoolMatch == <<
    Act("FIND_TEMPLATE", {<<"name", S("ok")>>, <<"threshold", F(85)>>}),
    Act("FIND_TEMPLATE", {<<"name", S("missing")>>}),
    Act("FIND_TEMPLATE", {<<"name", S("missing")>>, <<"threshold", S("abc")>>}),
    Act("CLICK_MATCH", {}) >>

\* IF_GOTO expressions: one that reads, three that call methods of the two bindings, two
\* that cannot be evaluated.
PoolExpr == <<
    Act("SET_VAR", {<<"name", S("i")>>, <<"value", I(1)>>}),
    Act("IF_GOTO", {<<"expr", S("vars['i'] < 3")>>, <<"index", I(0)>>}),
    Act("IF_GOTO", {<<"expr", S("vars.pop('i') < 3")>>, <<"index", I(0)>>}),
    Act("IF_GOTO", {<<"expr", S("vars.update(hit=1)")>>, <<"index", I(0)>>}),
    Act("IF_GOTO", {<<"expr", S("last_match.update(x=0)")>>, <<"index", I(0)>>}),
    Act("IF_GOTO", {<<"expr", S("1 +")>>, <<"index", I(0)>>}),
    Act("IF_GOTO", {<<"expr", S("foo > 1")>>, <<"index", I(0)>>}) >>

\* One CHECK_PIXEL for every coordinate, target colour and tolerance of these sets: the
\* coordinates lie just outside, on and inside the edges of the 8 x 8 frame, the targets
\* within 2 of its pixel (b, g, r) = (10, 20, 30).
PixelCoords == {-1, 0, 7, 8}
PixelTols == {0, 1, 2}
PixelScripts ==
    { << Act("CHECK_PIXEL", {<<"x", I(x)>>, <<"y", I(y)>>, <<"r", I(r)>>, <<"g", I(g)>>,
                             <<"b", I(b)>>, <<"tolerance", I(tol)>>}) >> :
        x \in PixelCoords, y \in PixelCoords, r \in {28, 30, 32}, g \in {19, 20, 22},
        b \in {9, 10, 12}, tol \in PixelTols }

\* Script files: params with a value of every primitive type, a string that reads as a
\* number among them.
PoolFile == <<
    Act("WAIT", {<<"seconds", F(50)>>}),
    Act("CLICK_AT", {<<"x", I(-1)>>, <<"y", S("1")>>}),
    Act("CLICK_MATCH", {<<"center", B(FALSE)>>, <<"button", None>>}),
    Act("NOPE", {}) >>

\* Files written by hand: a record without params, and one without type.
HandFiles == {
    File(<< {<<"type", S("WAIT")>>} >>, None),
    File(<< {<<"params", D({})>>} >>, None) }

\* Captures: the explicit one and the two readers of the capture cache.
PoolCapture == <<
    Act("SCREENSHOT", {}),
    Act("FIND_TEMPLATE", {<<"name", S("ok")>>}),
    Act("CHECK_PIXEL", {}) >>

\* Clicks on a match, the center parameter given as a string.
PoolClick == <<
    Act("FIND_TEMPLATE", {<<"name", S("ok")>>}),
    Act("CLICK_MATCH", {<<"center", S("false")>>}),
    Act("CLICK_MATCH", {<<"center", S("true")>>, <<"offset_x", I(1)>>}) >>

\* Input injection with a negative interval or duration.
PoolInput == <<
    Act("CLICK_AT", {<<"x", I(1)>>, <<"y", I(2)>>, <<"interval", F(-50)>>}),
    Act("MOVE_MOUSE", {<<"x", I(1)>>, <<"y", I(2)>>, <<"duration", F(-50)>>}),
    Act("TYPE_TEXT", {<<"text", S("a")>>, <<"interval", F(-50)>>}),
    Act("CLICK_AT", {}) >>

\* The scenario of the specification's section 8.
Scenario == <<
    Act("SET_VAR", {<<"name", S("i")>>, <<"value", I(0)>>}),
    Act("SET_VAR", {<<"name", S("i")>>, <<"value", I(1)>>}),
    Act("IF_GOTO", {<<"expr", S("vars['i'] < 3")>>, <<"index", I(1)>>}) >>

ScriptsOver(pool) ==
    UNION { { [k \in 1..n |-> pool[f[k]]] : f \in [1..n -> 1..Len(pool)] } : n \in 0..MaxLen }

\* ---------------------------------------------------------------- the state machine
\* BotGUI.__init__ / BotRuntime.__init__, with the script already loaded
InitProgram(script) ==
    /\ actions = script
    /\ runner_thread = 0
    /\ status = "Ready"
    /\ gui_pc = "idle"
    /\ vars = {}
    /\ templates = {}
    /\ last_screenshot = None
    /\ last_match = None
    /\ stop_requested = FALSE
    /\ pc = [t \in Threads |-> "none"]
    /\ i = [t \in Threads |-> 0]
    /\ jumped = [t \in Threads |-> None]
    /\ trace = Tr("-", None, None, "none")
    /\ found = FALSE
    /\ afterStop = 0
    /\ stopMidRun = FALSE
    /\ templates_list = <<>>
    /\ executed = <<>>

InitWith(script) ==
    InitProgram(script) /\ saved = None /\ tested = -1 /\ lazy = -1 /\ refused = -1

\* InitWith for the specifications that read the histories tested and lazy
InitKept(script) ==
    InitProgram(script) /\ saved = None /\ tested = 0 /\ lazy = 0 /\ refused = -1

\* InitWith for the specification that reads the history refused
InitStart ==
    \E script \in ScriptsOver(PoolRun) :
       InitProgram(script) /\ saved = None /\ tested = -1 /\ lazy = -1 /\ refused = 0

Init == \E script \in ScriptsOver(PoolRun) : InitWith(script)

InitMatch == \E script \in ScriptsOver(PoolMatch) : InitWith(script)

InitScenario == InitWith(Scenario)

InitTest == \E script \in ScriptsOver(PoolRun) : InitKept(script)

InitPixel == \E script \in PixelScripts : InitWith(script)

InitFile ==
    \E script \in ScriptsOver(PoolFile), file \in {None} \cup HandFiles :
       InitProgram(script) /\ saved = file /\ tested = -1 /\ lazy = -1 /\ refused = -1

InitCapture == \E script \in ScriptsOver(PoolCapture) : InitKept(script)

InitClick == \E script \in ScriptsOver(PoolClick) : InitWith(script)

InitInput == \E script \in ScriptsOver(PoolInput) : InitWith(script)

InitExpr == \E script \in ScriptsOver(PoolExpr) : InitWith(script)

\* The runner, the Run / Stop / Test Selected buttons and File > New.
NextRun ==
    \/ \E t \in Threads : Runner(t)
    \/ run_script
    \/ stop_request
    \/ stop_status
    \/ \E index \in 0..(MaxLen + 1) : test_selected_action(index)
    \/ NewScriptIdle

\* NextRun with the Screenshot, Load Template and Remove Template buttons.
Next ==
    \/ NextRun
    \/ cmd_screenshot
    \/ \E path \in {"ok.png", "bad.png"} : load_template_dialog(path)
    \/ \E row \in 1..MaxList : remove_selected_template(row)

\* The scripts of PoolRun read and write neither the template registry nor the capture
\* cache, so the three buttons that only touch those are left out of Spec.
Spec == Init /\ [][NextRun]_vars_all

SpecMatch == InitMatch /\ [][Next]_vars_all

SpecScenario == InitScenario /\ [][Next]_vars_all

\* check_pixel on its own: CHECK_PIXEL tested from the editor, with and without a capture
\* made before by the Screenshot button.
NextPixel ==
    \/ cmd_screenshot
    \/ \E index \in 0..(MaxLen - 1) : test_selected_action(index)

SpecPixel == InitPixel /\ [][NextPixel]_vars_all

\* Spec with every runner thread scheduled fairly: a thread that can take a step of
\* _runner_loop eventually takes one.
SpecLive == Init /\ [][NextRun]_vars_all /\ \A t \in Threads : WF_vars_all(Runner(t))

\* NextRun with the Screenshot button, the manual capture.
NextCapture ==
    \/ NextRun
    \/ cmd_screenshot

SpecCapture == InitCapture /\ [][NextCapture]_vars_all

SpecClick == InitClick /\ [][Next]_vars_all

SpecInput == InitInput /\ [][NextRun]_vars_all

\* The runner and the Run / Stop buttons, with the script edited at any time, during a
\* run too: Delete and File > New.
NextEdit ==
    \/ \E t \in Threads : Runner(t)
    \/ run_script
    \/ stop_request
    \/ stop_status
    \/ \E index \in 0..(MaxLen - 1) : delete_action(index)
    \/ new_script

SpecEdit == Init /\ [][NextEdit]_vars_all

\* Spec with the history of refused run_script calls kept
SpecStart == InitStart /\ [][NextRun]_vars_all

\* The File menu: New, Open, Save.
NextFile ==
    \/ save_script
    \/ load_script
    \/ NewScriptIdle

SpecFile == InitFile /\ [][NextFile]_vars_all

\* Spec with the history of test_selected_action kept
SpecTest == InitTest /\ [][NextRun]_vars_all

SpecExpr == InitExpr /\ [][NextRun]_vars_all

\* ---------------------------------------------------------------- properties
LiveThreads == {t \in Threads : Alive(t)}

\* C1: at most one runner thread is alive at any time, and while one is alive no step
\* (run_script included) starts a thread, reassigns runner_thread or clears the stop flag.
C1_OneActiveRun ==
    [][ /\ Cardinality(LiveThreads') <= 1
        /\ RunActive =>
              /\ \A t \in Threads : ~Alive(t) => pc'[t] = pc[t]
              /\ runner_thread' = runner_thread
              /\ stop_requested => stop_requested' ]_vars_all

\* A run is alive with a stop pending and the controlling thread free to call run_script.
C1_Witness == RunnerAlive /\ gui_pc = "idle" /\ stop_requested

\* C2 as stated: once the stop flag is true the runner dispatches no action at all.
C2_Original == afterStop = 0

\* C2 amended: once the stop flag is true the runner dispatches at most one more action
\* (the one whose should_stop poll had already returned false).
C2_AtMostOneAfterStop == afterStop <= 1

\* The runner dispatched an action after the flag was set and has then stopped.
C2_Witness == afterStop = 1 /\ \E t \in Threads : pc[t] = "stopped"

\* C3 as stated: after a run during which stop_script was called has ended, and
\* stop_script has returned, the status is "Stopped" (not "Done", not "Stopping...").
C3_Original ==
    (/\ ~RunActive
     /\ gui_pc = "idle"
     /\ stopMidRun
     /\ status \in {"Stopped", "Done", "Stopping..."}) => status = "Stopped"

\* clamp(t, 0, n - 1), written out
ClampTo(j, n) == IF j < 0 THEN 0 ELSE IF j > n - 1 THEN n - 1 ELSE j

\* C4: when an IF_GOTO returned target t, the loop continues at clamp(t, 0, len - 1), and
\* the index the runner checks and fetches with is always within 0..len - 1.
C4_JumpClamped ==
    [][ \A t \in Threads :
          /\ (pc[t] = "adv" /\ pc'[t] = "loop" /\ jumped[t] # None)
                => i'[t] = ClampTo(jumped[t][2], Len(actions))
          /\ pc'[t] \in {"poll", "check", "fetch"}
                => (0 <= i'[t] /\ i'[t] <= Len(actions') - 1) ]_vars_all

\* The runner is about to fetch at the last index after a jump beyond the script.
C4_Witness ==
    \E t \in Threads : /\ pc[t] = "fetch"
                       /\ jumped[t] # None
                       /\ jumped[t][2] >= Len(actions)
                       /\ i[t] = Len(actions) - 1

\* C5: at the step that ends a run with Done, the program counter i equals len(script).
C5_DoneAtEnd ==
    [][ \A t \in Threads : (pc[t] = "loop" /\ pc'[t] = "done") => i[t] = Len(actions) ]_vars_all

\* A run of a non-empty script has ended with Done.
C5_Witness == \E t \in Threads : pc[t] = "done" /\ status = "Done" /\ Len(actions) > 0

\* C6: an action of unknown kind, or one whose handler raised, returns no jump and the
\* loop goes on at i + 1; a run ends only at the loop test past the end (Done) or at a
\* poll that sees the stop flag (Stopped).
C6_FailuresAreNotFatal ==
    [][ \A t \in Threads :
          /\ (pc[t] = "fetch" /\ pc'[t] # "fetch" /\ trace'.note \in {"error", "unknown"})
                => (pc'[t] = "adv" /\ jumped'[t] = None)
          /\ (pc[t] = "adv" /\ pc'[t] = "loop" /\ jumped[t] = None) => i'[t] = i[t] + 1
          /\ (Alive(t) /\ ~Alive(t)')
                => \/ pc[t] = "loop" /\ i[t] >= Len(actions)
                      /\ pc'[t] = "done" /\ status' = "Done"
                   \/ pc[t] = "poll" /\ stop_requested
                      /\ pc'[t] = "stopped" /\ status' = "Stopped" ]_vars_all

\* The runner is past index 0, whose action was of unknown kind or raised.
C6_Witness ==
    \E t \in Threads : /\ pc[t] = "loop"
                       /\ i[t] = 1
                       /\ jumped[t] = None
                       /\ \/ actions[1].type = "NOPE"
                          \/ actions[1] = Act("WAIT", {<<"seconds", S("abc")>>})

\* C7 as stated: in a run of Scenario the IF_GOTO at index 2 is evaluated once and the
\* run goes on to Done, that is, the loop advances from index 2 to index 3.
C7_Original ==
    [][ \A t \in Threads :
          (actions = Scenario /\ pc[t] = "adv" /\ i[t] = 2 /\ pc'[t] = "loop")
             => i'[t] = 3 ]_vars_all

\* C7 amended: a run of Scenario never reaches Done; every evaluation of its IF_GOTO
\* returns the jump target 1.
C7_NeverDone ==
    [][ \A t \in Threads :
          actions = Scenario =>
             /\ pc'[t] = "done" => pc[t] = "done"
             /\ (pc[t] = "fetch" /\ i[t] = 2 /\ pc'[t] = "adv") => jumped'[t] = I(1) ]_vars_all

\* The runner is back at index 1 after the IF_GOTO jumped.
C7_Witness ==
    \E t \in Threads : actions = Scenario /\ pc[t] = "fetch" /\ i[t] = 1 /\ jumped[t] = I(1)

IsMatch(v) == v[1] = "match"

\* C8 as stated: after a find_template call that returned no match the last Match Result
\* is absent, and after one that returned a match it is that match.
C8_Original ==
    trace.op = "find_template" =>
       /\ trace.ret = None => last_match = None
       /\ IsMatch(trace.ret) => last_match = trace.ret

\* C9: while no find_template has returned a match since start or new_script, there is
\* no last Match Result, and a click_match call returns false without calling the
\* input-injection provider.
C9_NoClickWithoutMatch ==
    ~found =>
       /\ last_match = None
       /\ trace.op = "click_match" => (trace.ret = B(FALSE) /\ trace.inj = None)

\* click_match was called with no successful find before it.
C9_Witness == ~found /\ trace.op = "click_match" /\ trace.ret = B(FALSE)

\* The runner's dispatch of a FIND_TEMPLATE whose name is not in the registry.
FindMissingStep(t) ==
    /\ pc[t] = "fetch"
    /\ pc'[t] # "fetch"
    /\ i[t] \in 0..(Len(actions) - 1)
    /\ actions[i[t] + 1].type = "FIND_TEMPLATE"
    /\ ~HasKey(templates, ToStr(Get(actions[i[t] + 1].params, "name", S("template"))))

NoneRecorded(vs) ==
    /\ <<"last_match_name", None>> \in vs
    /\ <<"last_match_score", None>> \in vs
    /\ <<"last_match_xy", None>> \in vs

\* C10 as stated: FIND_TEMPLATE with an unregistered name raises nothing out of the
\* handler, returns absent and leaves the three variables set to none.
C10_Original ==
    [][ \A t \in Threads :
          FindMissingStep(t) =>
             /\ pc'[t] = "adv"
             /\ jumped'[t] = None
             /\ trace'.op = "find_template" /\ trace'.ret = None
             /\ NoneRecorded(vars') ]_vars_all

\* C10 amended: nothing is raised out of the handler; when the threshold coerces to a
\* float and the lazy capture does not raise, find_template returns absent and the three
\* variables are set to none; when either raises, the exception is caught and reported
\* and the variable store is left as it was.
C10_MissingTemplate ==
    [][ \A t \in Threads :
          FindMissingStep(t) =>
             /\ pc'[t] = "adv"
             /\ jumped'[t] = None
             /\ IF ToFloat(Get(actions[i[t] + 1].params, "threshold", F(85))) # Raise
                   /\ trace'.ret # Raise
                THEN trace'.op = "find_template" /\ trace'.ret = None /\ NoneRecorded(vars')
                ELSE trace'.note = "error" /\ vars' = vars ]_vars_all

\* The runner has just executed a FIND_TEMPLATE for "missing" that returned absent.
C10_Witness ==
    \E t \in Threads :
       /\ pc[t] = "adv"
       /\ i[t] \in 0..(Len(actions) - 1)
       /\ actions[i[t] + 1] = Act("FIND_TEMPLATE", {<<"name", S("missing")>>})
       /\ trace.op = "find_template"
       /\ trace.ret = None
       /\ NoneRecorded(vars)

\* The runner's dispatch of the action at its index, of type `type`.
RunnerDispatches(t, type) ==
    /\ pc[t] = "fetch"
    /\ pc'[t] # "fetch"
    /\ i[t] \in 0..(Len(actions) - 1)
    /\ actions[i[t] + 1].type = type

\* C11 as stated: executing an IF_GOTO leaves the variable store and the last Match
\* Result as they were, whatever the expression.
C11_Original ==
    [][ \A t \in Threads :
          RunnerDispatches(t, "IF_GOTO") => (vars' = vars /\ last_match' = last_match) ]_vars_all

\* C12: a step of test_selected_action writes what the dispatch of exactly one action of
\* the script writes, and leaves the stop flag, every runner's position, index and
\* pending jump, and the list of actions the run has executed as they were (so a target
\* returned by a tested IF_GOTO goes nowhere).
C12_TestOneAction ==
    [][ tested' # tested =>
          /\ \E index \in 0..(Len(actions) - 1) : Dispatch(actions[index + 1], index, TRUE)
          /\ stop_requested' = stop_requested
          /\ pc' = pc
          /\ i' = i
          /\ jumped' = jumped
          /\ runner_thread' = runner_thread
          /\ executed' = executed
          /\ actions' = actions ]_vars_all

\* An IF_GOTO whose condition is true was tested while a run that has not yet executed
\* anything is alive.
C12_Witness ==
    /\ tested = 1
    /\ RunActive
    /\ executed = <<>>
    /\ trace.op = "eval"
    /\ trace.ret = S("true")

\* The params of the CHECK_PIXEL that SpecPixel tests
PixelParam(k) == Get(actions[1].params, k, None)[2]

\* |captured - target| of the channel at position c of the frame (4: blue, 5: green, 6: red)
ChannelDiff(c, k) ==
    IF last_screenshot[c] >= PixelParam(k) THEN last_screenshot[c] - PixelParam(k)
    ELSE PixelParam(k) - last_screenshot[c]

PixelInside ==
    /\ 0 <= PixelParam("x") /\ PixelParam("x") < last_screenshot[2]
    /\ 0 <= PixelParam("y") /\ PixelParam("y") < last_screenshot[3]

\* C13: a check_pixel call that returned (the capture did not raise) returned true iff
\* the coordinate is inside the capture and each of the red, green and blue differences
\* is <= tolerance, and false for a coordinate outside the capture.
C13_CheckPixel ==
    (trace.op = "check_pixel" /\ trace.ret # Raise) =>
       /\ last_screenshot # None
       /\ trace.ret = B(/\ PixelInside
                        /\ ChannelDiff(6, "r") <= PixelParam("tolerance")
                        /\ ChannelDiff(5, "g") <= PixelParam("tolerance")
                        /\ ChannelDiff(4, "b") <= PixelParam("tolerance"))
       /\ ~PixelInside => trace.ret = B(FALSE)

\* check_pixel returned true with the red difference exactly the tolerance, 2.
C13_Witness ==
    /\ trace.op = "check_pixel"
    /\ trace.ret = B(TRUE)
    /\ PixelParam("tolerance") = 2
    /\ ChannelDiff(6, "r") = 2

\* C14: a script loaded from a file that save_script wrote equals the script that was
\* saved (same length, same order, every kind and every params mapping equal), and a
\* script loaded from a file whose records have no params field has empty params.
C14_RoundTrip ==
    status = "Loaded" =>
       /\ saved[3] # None => actions = saved[3][2]
       /\ \A k \in 1..Len(saved[2]) :
             ~HasKey(saved[2][k], "params") => actions[k].params = {}

\* A script of two different actions came back from its file after File > New.
C14_Witness ==
    /\ status = "Loaded"
    /\ saved[3] # None
    /\ Len(actions) = 2
    /\ actions[1] = PoolFile[2]
    /\ actions[2] = PoolFile[3]

\* A hand-written record without params was loaded.
C14_WitnessBare == status = "Loaded" /\ saved[3] = None /\ actions = <<Act("WAIT", {})>>

\* C15: whenever the stop flag is true while a runner thread is alive, that thread
\* eventually ends (every action being one step that ends, the threads scheduled fairly),
\* also when the script jumps back for ever.
C15_StopTerminates == \A t \in Threads : (stop_requested /\ Alive(t)) ~> ~Alive(t)

\* Stop was requested during a run of a script whose IF_GOTO jumps back to itself, after
\* the run had gone round at least once.
C15_Witness ==
    \E t \in Threads :
       /\ Alive(t)
       /\ stop_requested
       /\ actions = <<PoolRun[5]>>
       /\ jumped[t] = I(-1)

Last(s) == s[Len(s)]

\* The action at index k is an IF_GOTO whose condition is true.
TrueJumpAt(k) ==
    /\ actions[k + 1].type = "IF_GOTO"
    /\ EvalExpr(ToStr(Get(actions[k + 1].params, "expr", S("False"))), vars, last_match) = "true"

NoTrueJump == \A k \in 0..(Len(actions) - 1) : ~TrueJumpAt(k)

\* C16: a run executes its actions one at a time, the first at index 0 and each next one
\* at the index after the one before, unless that one was an IF_GOTO whose condition is
\* true; and a run without stop request of a script that has no such IF_GOTO has
\* executed exactly the indexes 0, 1, ..., len - 1, in this order, when it reaches Done.
C16_InOrder ==
    [][ /\ (executed' # executed /\ executed' # <<>>) =>
              /\ executed' = Append(executed, Last(executed'))
              /\ executed = <<>> => Last(executed') = 0
              /\ executed # <<>> =>
                    \/ Last(executed') = Last(executed) + 1
                    \/ TrueJumpAt(Last(executed))
        /\ \A t \in Threads :
              (pc[t] = "loop" /\ pc'[t] = "done" /\ ~stopMidRun /\ NoTrueJump) =>
                 executed = [k \in 1..Len(actions) |-> k - 1] ]_vars_all

\* A run without stop request is at the end of a script of MaxLen actions, none of them
\* a jump, having executed each once.
C16_Witness ==
    \E t \in Threads :
       /\ pc[t] = "loop"
       /\ i[t] = Len(actions)
       /\ Len(actions) = MaxLen
       /\ NoTrueJump
       /\ ~stopMidRun
       /\ executed = [k \in 1..Len(actions) |-> k - 1]

\* The evaluation of the expression of the IF_GOTO at the runner's index fails.
EvalFails(t) ==
    EvalExpr(ToStr(Get(actions[i[t] + 1].params, "expr", S("False"))), vars, last_match) = "error"

\* C17: when the runner executes an IF_GOTO whose expression cannot be evaluated, the
\* action returns no jump target and reports no error, the thread goes on, and its next
\* step moves the index on by exactly 1.
C17_EvalErrorIsFalse ==
    [][ \A t \in Threads :
          /\ (RunnerDispatches(t, "IF_GOTO") /\ EvalFails(t)) =>
                (pc'[t] = "adv" /\ jumped'[t] = None /\ trace'.note = "none")
          /\ (pc[t] = "adv" /\ jumped[t] = None /\ pc'[t] # "adv") =>
                (pc'[t] = "loop" /\ i'[t] = i[t] + 1) ]_vars_all

\* The run has gone on to index 1 after an IF_GOTO at index 0 whose expression is
\* malformed.
C17_Witness ==
    \E t \in Threads :
       /\ pc[t] = "loop"
       /\ i[t] = 1
       /\ executed = <<0>>
       /\ actions[1] = PoolExpr[6]

\* A step in which an action is dispatched, by a runner or by test_selected_action.
DispatchStep == tested' # tested \/ \E t \in Threads : pc[t] = "fetch" /\ pc'[t] # "fetch"

\* C18: a find_template or check_pixel call asks the screen-capture provider for a frame
\* iff the capture cache is empty when it is called; a cache that holds a frame is never
\* emptied; and at most one frame is ever captured by these calls, every other capture
\* being an explicit one (SCREENSHOT action, Screenshot button).
C18_LazyOnce ==
    [][ /\ last_screenshot # None => last_screenshot' # None
        /\ (DispatchStep /\ trace'.op \in {"find_template", "check_pixel"}) =>
              (trace'.cap # "no" <=> last_screenshot = None)
        /\ lazy' # lazy => (last_screenshot = None /\ last_screenshot' # None)
        /\ lazy' <= 1 ]_vars_all

\* After find_template or check_pixel captured a frame itself, a check_pixel call found
\* the cache filled and asked for none.
C18_Witness ==
    /\ lazy = 1
    /\ last_screenshot # None
    /\ trace.op = "check_pixel"
    /\ trace.cap = "no"

\* C19 as stated: while a runner thread is alive, the template registry and the capture
\* cache are written only by that runner's own actions, never by the controlling thread
\* (Screenshot, Load Template, Remove Template, Test Selected).
C19_Original ==
    [][ (RunActive /\ (templates' # templates \/ last_screenshot' # last_screenshot)) =>
          \E t \in Threads : pc[t] = "fetch" /\ pc'[t] # "fetch" ]_vars_all

\* The click point of the CLICK_MATCH at the runner's index, with `half` telling whether
\* half the width and height of the match are added.
ClickPoint(t, half) ==
    LET p == actions[i[t] + 1].params IN
    << last_match[3] + (IF half THEN last_match[5] \div 2 ELSE 0) + Get(p, "offset_x", I(0))[2],
       last_match[4] + (IF half THEN last_match[6] \div 2 ELSE 0) + Get(p, "offset_y", I(0))[2] >>

\* C20 as stated: a CLICK_MATCH executed while there is a match clicks at the top-left of
\* the match plus the offset when center is the string "false", and at the top-left plus
\* (w div 2, h div 2) plus the offset when center is the string "true".
C20_Original ==
    [][ \A t \in Threads :
          (RunnerDispatches(t, "CLICK_MATCH") /\ last_match # None) =>
             /\ trace'.op = "click_match"
             /\ Get(actions[i[t] + 1].params, "center", None) = S("false") =>
                   <<trace'.inj[2], trace'.inj[3]>> = ClickPoint(t, FALSE)
             /\ Get(actions[i[t] + 1].params, "center", None) = S("true") =>
                   <<trace'.inj[2], trace'.inj[3]>> = ClickPoint(t, TRUE) ]_vars_all

\* C21 as stated: the interval or duration that click_at, move_mouse and type_text hand
\* to the input-injection provider (the last argument of the call) is never negative.
C21_Original ==
    trace.op \in {"click_at", "move_mouse", "type_text"} => trace.inj[Len(trace.inj)] >= 0

\* C22 as stated: whenever the runner reads self.actions[index], the index is within the
\* script as it is at that moment, also when actions are deleted or the script is reset
\* during the run.
C22_Original ==
    [][ \A t \in Threads :
          (pc[t] = "fetch" /\ pc'[t] # "fetch") =>
             (0 <= i[t] /\ i[t] < Len(actions)) ]_vars_all

\* The three recorded variables say what the last Match Result is (a variable not yet
\* set reads as none).
RecordedAgrees(vs, lm) ==
    /\ Get(vs, "last_match_name", None) = None <=> lm = None
    /\ lm # None =>
          /\ Get(vs, "last_match_name", None) = S(lm[2])
          /\ Get(vs, "last_match_score", None) = F(lm[7])
          /\ Get(vs, "last_match_xy", None) = <<"tuple", lm[3], lm[4]>>

\* C23 as stated: after the runner has executed a FIND_TEMPLATE, last_match_name is none
\* iff there is no last Match Result, and otherwise the three variables hold its name,
\* score and (x, y).
C23_Original ==
    [][ \A t \in Threads :
          RunnerDispatches(t, "FIND_TEMPLATE") => RecordedAgrees(vars', last_match') ]_vars_all

\* C24: the stop flag goes from true to false only in a step that starts a new run, with
\* no runner alive before it; so a run_script call made while a run with a pending stop
\* is alive leaves the flag true, and the run ends with Stopped at its next poll, after at
\* most one more action.
C24_StopNotLost ==
    [][ /\ (stop_requested /\ ~stop_requested') =>
              /\ ~RunActive
              /\ runner_thread' # 0
              /\ pc[runner_thread'] # "start"
              /\ pc'[runner_thread'] = "start"
        /\ refused' = 1 => stop_requested'
        /\ \A t \in Threads :
              (refused = 1 /\ pc[t] = "poll" /\ pc'[t] # "poll") =>
                 (pc'[t] = "stopped" /\ status' = "Stopped")
        /\ refused' = 1 => afterStop' <= 1 ]_vars_all

\* run_script was called during a run with a stop pending, and the run has then stopped.
C24_Witness ==
    /\ refused = 1
    /\ stop_requested
    /\ \E t \in Threads : pc[t] = "stopped"

====
